---------------------------- MODULE Spec2Model ----------------------------
(***************************************************************************)
(* Dual-backend database adapter (src/unnamed/part_000) and its SQLite-only *)
(* predecessor (src/database.js): the adapter object built over a pg Pool, *)
(* the schema initializer initDatabase and the seed section.                *)
(*                                                                         *)
(* A statement is a sequence of tokens.  The text operations of the code   *)
(* (trim, toUpperCase, startsWith, includes, replace, +=) are operators on *)
(* token sequences.  The two engines are the environment of the program:   *)
(* each is an operator from (database, statement, parameters) to the       *)
(* engine's native answer and the next database.                           *)
(***************************************************************************)
EXTENDS Integers, Sequences, FiniteSets, TLC

\* ------------------------------------------------------------------ bounds
\* process starts (bootstrap runs) against one database
MaxRuns == 2
\* statements the request-handling code sends through the exported handle
MaxAppCalls == 1
\* longest statement given to translateQuery in SpecTranslate
MaxLen == 4
\* most blanks before and after a statement given to run in SpecRun
MaxBlanks == 1
\* statements lost to a connectivity or driver failure in SpecFaulty
MaxFaults == 1

\* ------------------------------------------------------- sequence helpers
Range(s) == { s[i] : i \in DOMAIN s }

IndexOf(s, tok) ==
    IF tok \in Range(s)
    THEN CHOOSE i \in DOMAIN s : s[i] = tok /\ \A j \in 1..(i - 1) : s[j] # tok
    ELSE 0

Tail2(s, from) == SubSeq(s, from, Len(s))

\* --------------------------------------------------- JavaScript text ops
\* String.prototype.toUpperCase / toLowerCase on one token
ToUpperCase(tok) ==
    CASE tok = "insert"    -> "INSERT"
      [] tok = "create"    -> "CREATE"
      [] tok = "table"     -> "TABLE"
      [] tok = "returning" -> "RETURNING"
      [] OTHER             -> tok

ToLowerCase(tok) ==
    CASE tok = "INSERT"    -> "insert"
      [] tok = "CREATE"    -> "create"
      [] tok = "TABLE"     -> "table"
      [] tok = "RETURNING" -> "returning"
      [] OTHER             -> tok

\* String.prototype.trim: leading and trailing blank tokens are dropped
RECURSIVE Trim(_)
Trim(sql) ==
    IF sql = <<>> THEN sql
    ELSE IF Head(sql) = " " THEN Trim(Tail(sql))
    ELSE IF sql[Len(sql)] = " " THEN Trim(SubSeq(sql, 1, Len(sql) - 1))
    ELSE sql

\* sql.trim().toUpperCase().startsWith(prefix), prefix a token sequence
StartsWith(sql, prefix) ==
    LET t == Trim(sql)
    IN  /\ Len(t) >= Len(prefix)
        /\ \A i \in DOMAIN prefix : ToUpperCase(t[i]) = prefix[i]

\* the tokens that hold word as a substring: the word itself, and the
\* string literal and the identifier of the model that are spelled with it
Contains(tok, word) ==
    \/ tok = word
    \/ word = "returning" /\ tok \in { "'returning soon'", "returning_customer" }

\* sql.toLowerCase().includes(word)
Includes(sql, word) == \E i \in DOMAIN sql : Contains(ToLowerCase(sql[i]), word)

\* sql.replace(/from/gi, to) on the column-type tokens the schema uses
ReplaceAll(sql, from, to) ==
    [ i \in DOMAIN sql |->
        CASE from = "INTEGER PRIMARY KEY AUTOINCREMENT" /\ sql[i] = from -> to
          [] from = "DATETIME" /\ sql[i] = "DATETIME DEFAULT CURRENT_TIMESTAMP"
                -> "TIMESTAMP DEFAULT CURRENT_TIMESTAMP"
          [] from = "DATETIME" /\ sql[i] = "DATETIME" -> to
          [] OTHER -> sql[i] ]

\* ------------------------------------------------------- translateQuery
\* `$${i}` for the counter values a statement of the model can reach
Numbered == << "$1", "$2", "$3", "$4", "$5", "$6", "$7", "$8", "$9", "$10", "$11", "$12" >>

RECURSIVE TranslateFrom(_, _)
\* the replace callback `() => `$${i++}`` applied left to right, counter at i
TranslateFrom(sql, i) ==
    IF sql = <<>> THEN <<>>
    ELSE IF Head(sql) = "?"
         THEN << Numbered[i] >> \o TranslateFrom(Tail(sql), i + 1)
         ELSE << Head(sql) >> \o TranslateFrom(Tail(sql), i)

RECURSIVE TranslateStuck(_, _)
\* translateQuery with the counter never incremented
TranslateStuck(sql, i) ==
    IF sql = <<>> THEN <<>>
    ELSE IF Head(sql) = "?"
         THEN << Numbered[i] >> \o TranslateStuck(Tail(sql), i)
         ELSE << Head(sql) >> \o TranslateStuck(Tail(sql), i)

translateQueryStuck(sql) == TranslateStuck(sql, 1)

translateQuery(sql) == TranslateFrom(sql, 1)


\* ------------------------------------------- statements of initDatabase
\* A CREATE TABLE statement: CREATE, TABLE, [IF NOT EXISTS], the table, then
\* (column name, column type) token pairs.
CreateUsers ==
    << "CREATE", "TABLE", "IF NOT EXISTS", "users",
       "id", "INTEGER PRIMARY KEY AUTOINCREMENT", "email", "TEXT UNIQUE",
       "password", "TEXT", "firstName", "TEXT", "lastName", "TEXT",
       "role", "TEXT DEFAULT", "status", "TEXT DEFAULT",
       "createdAt", "DATETIME DEFAULT CURRENT_TIMESTAMP" >>

CreateCourses ==
    << "CREATE", "TABLE", "IF NOT EXISTS", "courses",
       "id", "INTEGER PRIMARY KEY AUTOINCREMENT", "title", "TEXT", "desc", "TEXT",
       "price", "REAL", "priceOffer", "REAL", "image", "TEXT", "videoPromo", "TEXT",
       "category", "TEXT", "status", "TEXT DEFAULT", "modulesCount", "INTEGER DEFAULT",
       "modulesData", "TEXT", "createdAt", "DATETIME DEFAULT CURRENT_TIMESTAMP" >>

\* src/database.js declares courses without modulesData and adds it by ALTER
CreateCoursesLegacy ==
    << "CREATE", "TABLE", "IF NOT EXISTS", "courses",
       "id", "INTEGER PRIMARY KEY AUTOINCREMENT", "title", "TEXT", "desc", "TEXT",
       "price", "REAL", "priceOffer", "REAL", "image", "TEXT", "videoPromo", "TEXT",
       "category", "TEXT", "status", "TEXT DEFAULT", "modulesCount", "INTEGER DEFAULT",
       "createdAt", "DATETIME DEFAULT CURRENT_TIMESTAMP" >>

CreateOrders ==
    << "CREATE", "TABLE", "IF NOT EXISTS", "orders",
       "id", "INTEGER PRIMARY KEY AUTOINCREMENT", "userId", "INTEGER", "total", "REAL",
       "status", "TEXT DEFAULT", "createdAt", "DATETIME DEFAULT CURRENT_TIMESTAMP",
       "items", "TEXT" >>

CreateCoupons ==
    << "CREATE", "TABLE", "IF NOT EXISTS", "coupons",
       "id", "INTEGER PRIMARY KEY AUTOINCREMENT", "code", "TEXT UNIQUE", "discount", "REAL",
       "type", "TEXT DEFAULT", "status", "TEXT DEFAULT", "usedCount", "INTEGER DEFAULT" >>

CreateResources ==
    << "CREATE", "TABLE", "IF NOT EXISTS", "resources",
       "id", "INTEGER PRIMARY KEY AUTOINCREMENT", "name", "TEXT", "description", "TEXT",
       "type", "TEXT", "url", "TEXT", "dataUrl", "TEXT",
       "createdAt", "DATETIME DEFAULT CURRENT_TIMESTAMP" >>

CreateSettings ==
    << "CREATE", "TABLE", "IF NOT EXISTS", "settings",
       "key", "TEXT PRIMARY KEY", "value", "TEXT" >>

CreateEnrollments ==
    << "CREATE", "TABLE", "IF NOT EXISTS", "enrollments",
       "id", "INTEGER PRIMARY KEY AUTOINCREMENT", "userId", "INTEGER", "courseId", "INTEGER",
       "progress", "REAL DEFAULT", "lastAccess", "DATETIME DEFAULT CURRENT_TIMESTAMP",
       "totalHoursSpent", "REAL DEFAULT", "createdAt", "DATETIME DEFAULT CURRENT_TIMESTAMP" >>

AlterCourses == << "ALTER", "TABLE", "courses", "ADD COLUMN", "modulesData", "TEXT" >>

AlterResources == << "ALTER", "TABLE", "resources", "ADD COLUMN", "description", "TEXT" >>

\* An INSERT statement: INSERT, INTO, the table, the column names, VALUES,
\* one marker per column, and possibly RETURNING and a column.
InsertSetting == << "INSERT", "INTO", "settings", "key", "value", "VALUES", "?", "?" >>

InsertUser ==
    << "INSERT", "INTO", "users", "email", "password", "firstName", "lastName", "role",
       "VALUES", "?", "?", "?", "?", "?" >>

InsertCourse ==
    << "INSERT", "INTO", "courses", "title", "desc", "price", "category", "modulesData",
       "image", "VALUES", "?", "?", "?", "?", "?", "?" >>

\* A SELECT statement: SELECT, the result column, FROM, the table, and
\* possibly WHERE, a column, =, a quoted literal.
SelectMembershipPrice ==
    << "SELECT", "value", "FROM", "settings", "WHERE", "key", "=", "'membership_price'" >>

SelectAdmin ==
    << "SELECT", "*", "FROM", "users", "WHERE", "email", "=", "'admin@julg.com'" >>

SelectCourseCount == << "SELECT", "COUNT(*) as count", "FROM", "courses" >>

\* parameter lists of the seed inserts
PriceParams == << "membership_price", "999" >>

OfferParams == << "membership_price_offer", "" >>

AdminParams == << "admin@julg.com", "admin", "Admin", "User", "admin" >>

sampleModules == "[{id:1,title:'Introduccion',lessons:[{id:1,title:'Bienvenida'}]}]"

FiscalParams ==
    << "Curso Fiscal 2024", "Aprende todo sobre las nuevas reformas.", "99.00", "Fiscal",
       sampleModules, "photo-1554224155" >>

ContaParams ==
    << "Contabilidad para No Contadores", "Domina los numeros de tu negocio.", "49.00",
       "Contabilidad", sampleModules, "photo-1454165804606" >>


\* ------------------------------------------------------------ the engines
\* A database: tables maps each existing table to its columns (column name
\* to column type), rows to its rows in insertion order, serial to the last
\* identity value the table handed out.
EmptyDb == [ tables |-> << >>, rows |-> << >>, serial |-> << >> ]

\* the native answer of an engine to one statement
Answer(db, err, rows, rowCount, lastID) ==
    [ db |-> db, err |-> err, rows |-> rows, rowCount |-> rowCount, lastID |-> lastID ]

Failed(db, code) == Answer(db, code, << >>, 0, 0)

\* the literal a quoted token denotes
Unquote(lit) ==
    CASE lit = "'membership_price'"       -> "membership_price"
      [] lit = "'membership_price_offer'" -> "membership_price_offer"
      [] lit = "'admin@julg.com'"         -> "admin@julg.com"
      [] lit = "'nobody@julg.com'"        -> "nobody@julg.com"
      [] OTHER                            -> lit

\* a JavaScript value that is a number, or a string holding a number
JsNumber(n) == [ type |-> "number", n |-> n ]

JsString(n) == [ type |-> "string", n |-> n ]

JsUndefined == [ type |-> "undefined", n |-> 0 ]

\* row.count == 0 (the string '0' is coerced) and row.count === 0
LooseEquals(v, n) == v.n = n

StrictEquals(v, n) == v.type = "number" /\ v.n = n

\* ---- how an engine reads a statement
\* SQL keywords are case-insensitive and surrounding blanks are ignored
Canon(text) ==
    LET t == Trim(text)
    IN  [ i \in DOMAIN t |-> ToUpperCase(t[i]) ]

\* the column definitions of a CREATE TABLE statement from token at on
ColumnDefs(sql, at) ==
    LET defs  == Tail2(sql, at)
        odd   == { i \in DOMAIN defs : i % 2 = 1 }
        names == { defs[i] : i \in odd }
    IN  [ c \in names |-> defs[(CHOOSE i \in odd : defs[i] = c) + 1] ]

NoStatement ==
    [ kind |-> "?", ifNotExists |-> FALSE, table |-> "", defs |-> << >>, cols |-> << >>,
      markers |-> << >>, returning |-> "", what |-> "", whereCol |-> "", whereVal |-> "" ]

\* the statement an engine sees in a text: its kind, its table and
\*   CREATE: ifNotExists, defs (column name to column type)
\*   ALTER:  defs (the one added column)
\*   INSERT: cols, markers, returning ("" when there is no RETURNING clause)
\*   SELECT: what, whereCol and whereVal ("" when there is no WHERE clause)
Parse(text) ==
    LET sql == Canon(text)
        v   == IndexOf(sql, "VALUES")
        r   == IndexOf(sql, "RETURNING")
        w   == IndexOf(sql, "WHERE")
    IN  CASE sql # << >> /\ sql[1] = "CREATE" ->
               [ NoStatement EXCEPT
                   !.kind = "CREATE",
                   !.ifNotExists = (sql[3] = "IF NOT EXISTS"),
                   !.table = IF sql[3] = "IF NOT EXISTS" THEN sql[4] ELSE sql[3],
                   !.defs = ColumnDefs(sql, IF sql[3] = "IF NOT EXISTS" THEN 5 ELSE 4) ]
          [] sql # << >> /\ sql[1] = "ALTER" ->
               [ NoStatement EXCEPT
                   !.kind = "ALTER", !.table = sql[3], !.defs = ColumnDefs(sql, 5) ]
          [] sql # << >> /\ sql[1] = "INSERT" ->
               [ NoStatement EXCEPT
                   !.kind = "INSERT", !.table = sql[3],
                   !.cols = SubSeq(sql, 4, v - 1),
                   !.markers = SubSeq(sql, v + 1, IF r = 0 THEN Len(sql) ELSE r - 1),
                   !.returning = IF r = 0 \/ r = Len(sql) THEN "" ELSE sql[r + 1] ]
          [] sql # << >> /\ sql[1] = "SELECT" ->
               [ NoStatement EXCEPT
                   !.kind = "SELECT", !.what = sql[2], !.table = sql[4],
                   !.whereCol = IF w = 0 THEN "" ELSE sql[w + 1],
                   !.whereVal = IF w = 0 THEN "" ELSE Unquote(sql[w + 3]) ]
          [] OTHER -> NoStatement

\* column types that make the engine reject a second row with the same value
\* users.email declared TEXT, without UNIQUE
UniqueTypesKeyOnly == { "TEXT PRIMARY KEY" }

UniqueTypes == { "TEXT UNIQUE", "TEXT PRIMARY KEY" }

Clashes(db, t, row) ==
    \E c \in DOMAIN row :
        /\ c \in DOMAIN db.tables[t]
        /\ db.tables[t][c] \in UniqueTypes
        /\ \E k \in DOMAIN db.rows[t] :
              c \in DOMAIN db.rows[t][k] /\ db.rows[t][k][c] = row[c]

\* the rows of a SELECT: all rows of the table, or the rows the WHERE keeps
Matching(db, st) ==
    LET Keep(row) ==
            st.whereCol = "" \/ (st.whereCol \in DOMAIN row /\ row[st.whereCol] = st.whereVal)
    IN  SelectSeq(db.rows[st.table], Keep)

Project(rows, what, count) ==
    CASE what = "COUNT(*) as count" -> << [ count |-> count ] >>
      [] what = "*"                 -> rows
      [] OTHER -> [ i \in DOMAIN rows |-> [ c \in {what} |-> rows[i][c] ] ]

AddTable(db, t, cols) ==
    [ tables |-> (t :> cols) @@ db.tables,
      rows   |-> (t :> << >>) @@ db.rows,
      serial |-> (t :> 0) @@ db.serial ]

AddColumns(db, t, cols) ==
    [ db EXCEPT !.tables = (t :> (cols @@ db.tables[t])) @@ db.tables ]

AddRow(db, t, row, id) ==
    [ db EXCEPT !.rows = (t :> Append(db.rows[t], row)) @@ db.rows,
                !.serial = (t :> id) @@ db.serial ]

Burn(db, t, id) == [ db EXCEPT !.serial = (t :> id) @@ db.serial ]

\* ---- PostgreSQL behind pool.query
\* identifiers of the schema that PostgreSQL reserves: an unquoted desc is
\* the ORDER BY keyword, never a column name
PgReserved == { "desc" }

\* the column types of the schema that PostgreSQL knows
PgTypes ==
    { "SERIAL PRIMARY KEY", "TEXT", "TEXT UNIQUE", "TEXT DEFAULT", "TEXT PRIMARY KEY",
      "REAL", "REAL DEFAULT", "INTEGER", "INTEGER DEFAULT",
      "TIMESTAMP", "TIMESTAMP DEFAULT CURRENT_TIMESTAMP" }

PgCreate(db, st) ==
    IF (DOMAIN st.defs) \cap PgReserved # {} \/ ~ (Range(st.defs) \subseteq PgTypes)
    THEN Failed(db, "42601")                    \* syntax_error
    ELSE IF st.table \in DOMAIN db.tables
    THEN IF st.ifNotExists
         THEN Answer(db, "none", << >>, 0, 0)   \* NOTICE: already exists, skipping
         ELSE Failed(db, "42P07")               \* duplicate_table
    ELSE Answer(AddTable(db, st.table, st.defs), "none", << >>, 0, 0)

PgAlter(db, st) ==
    IF (DOMAIN st.defs) \cap PgReserved # {} \/ ~ (Range(st.defs) \subseteq PgTypes)
    THEN Failed(db, "42601")
    ELSE IF st.table \notin DOMAIN db.tables THEN Failed(db, "42P01")   \* undefined_table
    ELSE IF (DOMAIN st.defs) \cap DOMAIN db.tables[st.table] # {}
    THEN Failed(db, "42701")                    \* duplicate_column
    ELSE Answer(AddColumns(db, st.table, st.defs), "none", << >>, 0, 0)

PgInsert(db, st, params) ==
    LET t       == st.table
        num(m)  == IndexOf(Numbered, m)
        id      == db.serial[t] + 1
        hasId   == "id" \in DOMAIN db.tables[t]
        row     == [ c \in Range(st.cols) |-> params[num(st.markers[IndexOf(st.cols, c)])] ]
        full    == IF hasId THEN ("id" :> id) @@ row ELSE row
    IN  IF \/ Range(st.cols) \cap PgReserved # {}
           \/ Len(st.markers) # Len(st.cols)
           \/ \E i \in DOMAIN st.markers : num(st.markers[i]) = 0
        THEN Failed(db, "42601")
        ELSE IF t \notin DOMAIN db.tables THEN Failed(db, "42P01")
        ELSE IF \/ ~ (Range(st.cols) \subseteq DOMAIN db.tables[t])
                \/ (st.returning # "" /\ st.returning \notin DOMAIN db.tables[t])
        THEN Failed(db, "42703")                \* undefined_column
        ELSE IF \E i \in DOMAIN st.markers : num(st.markers[i]) > Len(params)
        THEN Failed(db, "08P01")                \* bind message: too few parameters
        ELSE IF Clashes(db, t, row)
        THEN Failed(IF hasId THEN Burn(db, t, id) ELSE db, "23505")   \* unique_violation
        ELSE Answer(AddRow(db, t, full, IF hasId THEN id ELSE db.serial[t]), "none",
                    IF st.returning = "" THEN << >>
                    ELSE << [ c \in {st.returning} |-> full[c] ] >>,
                    1, 0)

PgSelect(db, st) ==
    IF st.table \notin DOMAIN db.tables THEN Failed(db, "42P01")
    ELSE LET rows == Matching(db, st)
             out  == Project(rows, st.what, JsString(Len(rows)))   \* bigint arrives as text
         IN  Answer(db, "none", out, Len(out), 0)

\* pool.query(pgSql, params, ...): the server's answer to the statement it
\* has read in pgSql
PgAnswer(db, st, params) ==
    CASE st.kind = "CREATE" -> PgCreate(db, st)
      [] st.kind = "ALTER"  -> PgAlter(db, st)
      [] st.kind = "INSERT" -> PgInsert(db, st, params)
      [] st.kind = "SELECT" -> PgSelect(db, st)
      [] OTHER -> Failed(db, "42601")

\* ---- SQLite behind sqlite3.Database
SqliteCreate(db, st) ==
    IF st.table \in DOMAIN db.tables
    THEN IF st.ifNotExists
         THEN Answer(db, "none", << >>, 0, 0)
         ELSE Failed(db, "SQLITE_ERROR")        \* table already exists
    ELSE Answer(AddTable(db, st.table, st.defs), "none", << >>, 0, 0)

SqliteAlter(db, st) ==
    IF st.table \notin DOMAIN db.tables THEN Failed(db, "SQLITE_ERROR")   \* no such table
    ELSE IF (DOMAIN st.defs) \cap DOMAIN db.tables[st.table] # {}
    THEN Failed(db, "SQLITE_ERROR")             \* duplicate column name
    ELSE Answer(AddColumns(db, st.table, st.defs), "none", << >>, 0, 0)

SqliteInsert(db, st, params) ==
    LET t       == st.table
        id      == db.serial[t] + 1
        hasId   == "id" \in DOMAIN db.tables[t]
        row     == [ c \in Range(st.cols) |-> params[IndexOf(st.cols, c)] ]
        full    == IF hasId THEN ("id" :> id) @@ row ELSE row
    IN  IF Len(st.markers) # Len(st.cols) \/ \E i \in DOMAIN st.markers : st.markers[i] # "?"
        THEN Failed(db, "SQLITE_ERROR")
        ELSE IF t \notin DOMAIN db.tables THEN Failed(db, "SQLITE_ERROR")     \* no such table
        ELSE IF ~ (Range(st.cols) \subseteq DOMAIN db.tables[t]) THEN Failed(db, "SQLITE_ERROR")
        ELSE IF Len(params) # Len(st.markers) THEN Failed(db, "SQLITE_RANGE")
        ELSE IF Clashes(db, t, row) THEN Failed(db, "SQLITE_CONSTRAINT")
        ELSE Answer(AddRow(db, t, full, id), "none", << >>, 1, id)   \* lastID is the rowid

SqliteSelect(db, st) ==
    IF st.table \notin DOMAIN db.tables THEN Failed(db, "SQLITE_ERROR")
    ELSE LET rows == Matching(db, st)
         IN  Answer(db, "none", Project(rows, st.what, JsNumber(Len(rows))), 0, 0)

\* Database#run / #get / #all of the sqlite3 driver: the answer to the
\* statement it has read in the text as given
SqliteAnswer(db, st, params) ==
    CASE st.kind = "CREATE" -> SqliteCreate(db, st)
      [] st.kind = "ALTER"  -> SqliteAlter(db, st)
      [] st.kind = "INSERT" -> SqliteInsert(db, st, params)
      [] st.kind = "SELECT" -> SqliteSelect(db, st)
      [] OTHER -> Failed(db, "SQLITE_ERROR")

\* -------------------------------------------------------------- the state
VARIABLES
    isPostgres,   \* process.env.POSTGRES_URL || process.env.DATABASE_URL is set
    binding,      \* the handle db of the running process: "none", "postgres", "sqlite"
    source,       \* the module the process loads: "part_000" or "database.js"
    db,           \* the database behind the engine; it outlives the process
    queue,        \* statements handed to the engine and not yet answered
    proc,         \* how many processes have been started against db
    pc,           \* "none", "loaded" (db exported, initDatabase not yet called), "running"
    appCalls,     \* statements request-handling code has sent so far
    last,         \* the statement answered last: the engine that answered, the text
                  \* it was sent, its native answer, what the caller got and
                  \* the call sites its callback went through
    log,          \* console.error lines and error events, per process
    issued,       \* seed INSERTs handed to the engine: <<process, call site>>
    before,       \* db.tables when the running process was started
    faults,       \* statements lost to a connectivity or driver failure so far
    sqlIn,        \* the statement of the latest translateQuery or run call
    sqlOut        \* what that call returned

vars ==
    << isPostgres, binding, source, db, queue, proc, pc, appCalls, last, log, issued,
       before, faults, sqlIn, sqlOut >>

\* a call of db.run / db.get / db.all as written at the call site
Call(op, sql, params, cb, origin) ==
    [ op |-> op, sql |-> sql, params |-> params, cb |-> cb, origin |-> origin ]

\* ------------------------------------------------- the networked adapter
\* db.run up to pool.query: the insert flag and the statement that is sent
run(sql) ==
    LET sql1     == IF StartsWith(sql, << "CREATE", "TABLE" >>)
                    THEN ReplaceAll(ReplaceAll(sql, "INTEGER PRIMARY KEY AUTOINCREMENT",
                                               "SERIAL PRIMARY KEY"),
                                    "DATETIME", "TIMESTAMP")
                    ELSE sql
        isInsert == StartsWith(sql1, << "INSERT" >>)
        sql2     == IF isInsert /\ ~ Includes(sql1, "returning")
                    THEN sql1 \o << "RETURNING", "id" >>
                    ELSE sql1
    IN  [ isInsert |-> isInsert, pgSql |-> translateQuery(sql2) ]

\* db.get and db.all up to pool.query
getSent(sql) == translateQuery(sql)

\* what the caller of run / get / all gets: whether its callback was
\* invoked and how many times, the error argument, the this-context of run,
\* the row of get, the rows of all, and whether the adapter or the driver
\* logged the error
Outcome(called, err, lastID, changes, row, rows, logged) ==
    [ called |-> called, times |-> IF called THEN 1 ELSE 0, err |-> err,
      lastID |-> lastID, changes |-> changes, row |-> row, rows |-> rows,
      logged |-> logged ]

\* the first row of a result set, or the absence marker (undefined)
NoRow == << >>

FirstRow(rows) == IF rows = << >> THEN NoRow ELSE << rows[1] >>

\* the pool.query callback of db.run
runCallbackStrict(e, a) ==
    IF a.err # "none"
    THEN IF e.cb # "none"
         THEN Outcome(TRUE, a.err, JsUndefined, 0, NoRow, << >>, FALSE)
         ELSE Outcome(FALSE, "none", JsUndefined, 0, NoRow, << >>, TRUE)
    ELSE Outcome(e.cb # "none", "none",
                 IF e.isInsert /\ a.rows # << >>
                 THEN (IF "id" \in DOMAIN a.rows[1] THEN JsNumber(a.rows[1].id) ELSE JsUndefined)
                 ELSE JsNumber(0),
                 a.rowCount, NoRow, << >>, FALSE)

runCallbackSwallow(e, a) ==
    IF a.err # "none"
    THEN Outcome(e.cb # "none", "none", JsNumber(0), 0, NoRow, << >>, FALSE)
    ELSE Outcome(e.cb # "none", "none",
                 IF e.isInsert /\ a.rows # << >>
                 THEN (IF "id" \in DOMAIN a.rows[1] THEN JsNumber(a.rows[1].id) ELSE JsUndefined)
                 ELSE JsNumber(0),
                 a.rowCount, NoRow, << >>, FALSE)

runCallback(e, a) ==
    IF a.err # "none"
    THEN IF a.err = "42P07" \/ a.err = "42701"
         THEN Outcome(e.cb # "none", "none", JsNumber(0), 0, NoRow, << >>, FALSE)
         ELSE IF e.cb # "none"
         THEN Outcome(TRUE, a.err, JsUndefined, 0, NoRow, << >>, FALSE)
         ELSE Outcome(FALSE, "none", JsUndefined, 0, NoRow, << >>, TRUE)
    ELSE Outcome(e.cb # "none", "none",
                 IF e.isInsert /\ a.rows # << >>
                 THEN (IF "id" \in DOMAIN a.rows[1] THEN JsNumber(a.rows[1].id) ELSE JsUndefined)
                 ELSE JsNumber(0),
                 a.rowCount, NoRow, << >>, FALSE)

\* the pool.query callback of db.get
getCallbackNoRowError(e, a) ==
    IF a.err # "none" \/ a.rows = << >>
    THEN Outcome(TRUE, IF a.err # "none" THEN a.err ELSE "no row", JsUndefined, 0,
                 NoRow, << >>, FALSE)
    ELSE Outcome(TRUE, "none", JsUndefined, 0, FirstRow(a.rows), << >>, FALSE)

\* db.get without the return of `if (err) return callback(err)`: the
\* callback is invoked again after the error was handed over
getCallbackNoReturn(e, a) ==
    IF a.err # "none"
    THEN [ Outcome(TRUE, a.err, JsUndefined, 0, NoRow, << >>, FALSE) EXCEPT !.times = 2 ]
    ELSE Outcome(TRUE, "none", JsUndefined, 0, FirstRow(a.rows), << >>, FALSE)

getCallback(e, a) ==
    IF a.err # "none"
    THEN Outcome(TRUE, a.err, JsUndefined, 0, NoRow, << >>, FALSE)
    ELSE Outcome(TRUE, "none", JsUndefined, 0, FirstRow(a.rows), << >>, FALSE)

\* the pool.query callback of db.all
allCallback(e, a) ==
    IF a.err # "none"
    THEN Outcome(TRUE, a.err, JsUndefined, 0, NoRow, << >>, FALSE)
    ELSE Outcome(TRUE, "none", JsUndefined, 0, NoRow, a.rows, FALSE)

\* ------------------------------------------------- the sqlite3 driver
\* Database#run, #get, #all: the callback gets the error or the result; an
\* error with no callback is emitted as an 'error' event of the handle
DriverCallback(e, a) ==
    IF a.err # "none"
    THEN Outcome(e.cb # "none", IF e.cb # "none" THEN a.err ELSE "none",
                 JsUndefined, 0, NoRow, << >>, e.cb = "none")
    ELSE CASE e.op = "run" -> Outcome(e.cb # "none", "none", JsNumber(a.lastID), a.rowCount,
                                      NoRow, << >>, FALSE)
           [] e.op = "get" -> Outcome(e.cb # "none", "none", JsUndefined, 0,
                                      FirstRow(a.rows), << >>, FALSE)
           [] OTHER        -> Outcome(e.cb # "none", "none", JsUndefined, 0,
                                      NoRow, a.rows, FALSE)

\* ------------------------------------------------------- the call sites
\* Every db.run / db.get / db.all of the two modules, by module and line.
\* A queued statement names its call site; the call is what the site says.
InitSites ==
    IF source = "part_000"
    THEN << "p124", "p136", "p155", "p165", "p175", "p186", "p192", "p206", "p215", "p227" >>
    ELSE << "d18", "d30", "d51", "d56", "d66", "d76", "d87", "d91", "d97", "d105",
            "d120", "d134" >>

\* statements request-handling code sends through the exported handle
CreateUsersPlain ==
    << "CREATE", "TABLE", "users",
       "id", "INTEGER PRIMARY KEY AUTOINCREMENT", "email", "TEXT UNIQUE" >>

SelectNobody ==
    << "SELECT", "*", "FROM", "users", "WHERE", "email", "=", "'nobody@julg.com'" >>

SelectUsers == << "SELECT", "*", "FROM", "users" >>

AppSites ==
    { "app.alter", "app.create", "app.setting", "app.user", "app.user.nocb",
      "app.nobody", "app.admin", "app.users" }

CallAt(site) ==
    CASE site = "p124" -> Call("run", CreateUsers, << >>, "InitUsers", "schema")
      [] site = "p136" -> Call("run", CreateCourses, << >>, "InitCourses", "schema")
      [] site = "p155" -> Call("run", CreateOrders, << >>, "none", "schema")
      [] site = "p165" -> Call("run", CreateCoupons, << >>, "none", "schema")
      [] site = "p175" -> Call("run", CreateResources, << >>, "none", "schema")
      [] site = "p186" -> Call("run", CreateSettings, << >>, "none", "schema")
      [] site = "p192" -> Call("run", CreateEnrollments, << >>, "none", "schema")
      [] site = "p206" -> Call("get", SelectMembershipPrice, << >>, "SettingsSeed", "seedCheck")
      [] site = "p209" -> Call("run", InsertSetting, PriceParams, "none", "seedInsert")
      [] site = "p210" -> Call("run", InsertSetting, OfferParams, "none", "seedInsert")
      [] site = "p215" -> Call("get", SelectAdmin, << >>, "AdminSeed", "seedCheck")
      [] site = "p217" -> Call("run", InsertUser, AdminParams, "AdminInserted", "seedInsert")
      [] site = "p227" -> Call("get", SelectCourseCount, << >>, "CoursesSeed", "seedCheck")
      [] site = "p233" -> Call("run", InsertCourse, FiscalParams, "none", "seedInsert")
      [] site = "p236" -> Call("run", InsertCourse, ContaParams, "none", "seedInsert")
      [] site = "d18"  -> Call("run", CreateUsers, << >>, "none", "schema")
      [] site = "d30"  -> Call("run", CreateCoursesLegacy, << >>, "none", "schema")
      [] site = "d51"  -> Call("run", AlterCourses, << >>, "Ignore", "schema")
      [] site = "d56"  -> Call("run", CreateOrders, << >>, "none", "schema")
      [] site = "d66"  -> Call("run", CreateCoupons, << >>, "none", "schema")
      [] site = "d76"  -> Call("run", CreateResources, << >>, "none", "schema")
      [] site = "d87"  -> Call("run", AlterResources, << >>, "Ignore", "schema")
      [] site = "d91"  -> Call("run", CreateSettings, << >>, "none", "schema")
      [] site = "d97"  -> Call("get", SelectMembershipPrice, << >>, "SettingsSeed", "seedCheck")
      [] site = "d99"  -> Call("run", InsertSetting, PriceParams, "none", "seedInsert")
      [] site = "d100" -> Call("run", InsertSetting, OfferParams, "none", "seedInsert")
      [] site = "d105" -> Call("run", CreateEnrollments, << >>, "none", "schema")
      [] site = "d120" -> Call("get", SelectAdmin, << >>, "AdminSeed", "seedCheck")
      [] site = "d123" -> Call("run", InsertUser, AdminParams, "AdminInserted", "seedInsert")
      [] site = "d134" -> Call("get", SelectCourseCount, << >>, "CoursesSeed", "seedCheck")
      [] site = "d140" -> Call("run", InsertCourse, FiscalParams, "none", "seedInsert")
      [] site = "d143" -> Call("run", InsertCourse, ContaParams, "none", "seedInsert")
      [] site = "app.alter"     -> Call("run", AlterResources, << >>, "App", "app")
      [] site = "app.create"    -> Call("run", CreateUsersPlain, << >>, "App", "app")
      [] site = "app.setting"   -> Call("run", InsertSetting, << "theme", "dark" >>, "App", "app")
      [] site = "app.user"      -> Call("run", InsertUser, AdminParams, "App", "app")
      [] site = "app.user.nocb" -> Call("run", InsertUser, AdminParams, "none", "app")
      [] site = "app.nobody"    -> Call("get", SelectNobody, << >>, "App", "app")
      [] site = "app.admin"     -> Call("get", SelectAdmin, << >>, "App", "app")
      [] site = "app.users"     -> Call("all", SelectUsers, << >>, "App", "app")
      [] OTHER -> Call("none", << >>, << >>, "none", "none")

\* the calls a callback of initDatabase makes when it is given out
SettingsSeed(out) ==
    IF out.row = NoRow
    THEN IF source = "part_000" THEN << "p209", "p210" >> ELSE << "d99", "d100" >>
    ELSE << >>

AdminSeed(out) ==
    IF out.row = NoRow
    THEN IF source = "part_000" THEN << "p217" >> ELSE << "d123" >>
    ELSE << >>

CoursesSeed(out) ==
    IF source = "part_000"
    THEN IF out.row # NoRow /\ LooseEquals(out.row[1].count, 0)
         THEN << "p233", "p236" >> ELSE << >>
    ELSE IF out.row # NoRow /\ StrictEquals(out.row[1].count, 0)
         THEN << "d140", "d143" >> ELSE << >>

Callback(cb, out) ==
    CASE cb = "SettingsSeed" -> SettingsSeed(out)
      [] cb = "AdminSeed"    -> AdminSeed(out)
      [] cb = "CoursesSeed"  -> CoursesSeed(out)
      [] OTHER               -> << >>

\* ---------------------------------------------------- engine binding
\* the statement process p hands to the engine for the call at a site
Submit(site, p, serial) ==
    [ site |-> site, proc |-> p, serial |-> binding = "sqlite" /\ serial ]

SubmitAll(sites, p, serial) == [ i \in DOMAIN sites |-> Submit(sites[i], p, serial) ]

Sites ==
    { "p124", "p136", "p155", "p165", "p175", "p186", "p192", "p206", "p209", "p210",
      "p215", "p217", "p227", "p233", "p236",
      "d18", "d30", "d51", "d56", "d66", "d76", "d87", "d91", "d97", "d99", "d100",
      "d105", "d120", "d123", "d134", "d140", "d143" } \cup AppSites

\* what the networked adapter sends for the call at a site: db.run keeps
\* the insert flag for its pool.query callback
PgSent(site) ==
    LET c == CallAt(site)
    IN  IF c.op = "run" THEN run(c.sql) ELSE [ isInsert |-> FALSE, pgSql |-> getSent(c.sql) ]

\* the calls and the statements of all sites, worked out once
Calls == [ site \in Sites |-> CallAt(site) ]

PgStatements == [ site \in Sites |-> PgSent(site) ]

PgParsed == [ site \in Sites |-> Parse(PgSent(site).pgSql) ]

SqliteParsed == [ site \in Sites |-> Parse(CallAt(site).sql) ]

\* a queued statement with its call
Pending(e) ==
    LET c == Calls[e.site]
    IN  [ op |-> c.op, sql |-> c.sql, params |-> c.params, cb |-> c.cb, origin |-> c.origin,
          proc |-> e.proc, site |-> e.site,
          text |-> IF binding = "postgres" THEN PgStatements[e.site].pgSql ELSE c.sql,
          isInsert |-> binding = "postgres" /\ PgStatements[e.site].isInsert ]

\* the engine's answer to a statement: pool.query(pgSql, params) on the
\* networked engine, the driver with the statement as written on the embedded
Execute(c) ==
    IF binding = "postgres" THEN PgAnswer(db, PgParsed[c.site], c.params)
    ELSE SqliteAnswer(db, SqliteParsed[c.site], c.params)

\* what the caller of a statement gets for the answer a
Deliver(c, a) ==
    IF binding = "postgres"
    THEN CASE c.op = "run" -> runCallback(c, a)
           [] c.op = "get" -> getCallback(c, a)
           [] OTHER        -> allCallback(c, a)
    ELSE DriverCallback(c, a)

\* the console.error lines (and unhandled error events) one answer causes
LogLine(c, tag) == [ proc |-> c.proc, tag |-> tag, site |-> c.site ]

Logged(c, out) ==
    (IF out.logged
     THEN { LogLine(c, IF binding = "postgres" THEN "DB Error:" ELSE "error event") } ELSE {})
    \cup (IF out.called /\ out.err # "none" /\ c.cb = "InitUsers"
          THEN { LogLine(c, "Init Users:") } ELSE {})
    \cup (IF out.called /\ out.err # "none" /\ c.cb = "InitCourses"
          THEN { LogLine(c, "Init Courses:") } ELSE {})
    \cup (IF out.called /\ out.err # "none" /\ c.cb = "AdminInserted" /\ source = "database.js"
          THEN { LogLine(c, "console.error") } ELSE {})

\* ------------------------------------------------------------ the actions
\* if (isPostgres) db = the adapter over the pool, else db = the sqlite3 handle
BindEmbedded(flag) == "sqlite"

Bind(flag) == IF flag THEN "postgres" ELSE "sqlite"

\* connections a pg Pool opens at most (the default: new Pool sets no max)
PoolMax == 10

NoLast ==
    [ site |-> "none", proc |-> 0, engine |-> "none", text |-> << >>,
      native |-> "none", nativeRows |-> << >>, follow |-> << >>,
      out |-> Outcome(FALSE, "none", JsUndefined, 0, NoRow, << >>, FALSE) ]

Init ==
    /\ isPostgres \in BOOLEAN
    /\ source \in { "part_000", "database.js" }
    /\ source = "database.js" => ~ isPostgres
    /\ binding = "none"
    /\ db = EmptyDb
    /\ queue = << >>
    /\ proc = 0
    /\ pc = "none"
    /\ appCalls = 0
    /\ last = NoLast
    /\ log = {}
    /\ issued = {}
    /\ before = << >>
    /\ faults = 0
    /\ sqlIn = << >>
    /\ sqlOut = << >>

\* node loads the module: the handle is built and exported, initDatabase is
\* left to a 500 ms timer (networked) or to the open callback (embedded).
\* A process is started once the one before it has finished its bootstrap.
StartProcess ==
    /\ proc < MaxRuns
    /\ pc \in { "none", "running" }
    /\ queue = << >>
    /\ proc' = proc + 1
    /\ pc' = "loaded"
    /\ binding' = Bind(isPostgres)
    /\ before' = db.tables
    /\ last' = NoLast
    /\ UNCHANGED << isPostgres, source, db, queue, appCalls, log, issued, faults, sqlIn, sqlOut >>

\* the timer or the open callback fires: initDatabase() runs to its end
InitDatabase ==
    /\ pc = "loaded"
    /\ pc' = "running"
    /\ queue' = queue \o SubmitAll(InitSites, proc, TRUE)
    /\ UNCHANGED << isPostgres, binding, source, db, proc, appCalls, last, log, issued, before,
                    faults, sqlIn, sqlOut >>

\* The request-handling code is followed from the moment the statements of
\* the bootstrap have been answered, one statement at a time.
AppRequest(site) ==
    /\ pc = "running"
    /\ queue = << >>
    /\ appCalls < MaxAppCalls
    /\ appCalls' = appCalls + 1
    /\ queue' = Append(queue, Submit(site, proc, FALSE))
    /\ UNCHANGED << isPostgres, binding, source, db, proc, pc, last, log, issued, before,
                    faults, sqlIn, sqlOut >>

\* the statements the engine may answer next: any that holds a connection
\* of the pool of its process (networked); the head of the serialized queue,
\* or one issued outside serialize with no serialized statement ahead of it
\* (embedded)
Executable(i) ==
    IF binding = "postgres"
    THEN Cardinality({ j \in 1..(i - 1) : queue[j].proc = queue[i].proc }) < PoolMax
    ELSE /\ \A j \in 1..(i - 1) : ~ queue[j].serial
         /\ queue[i].serial => i = 1

Remove(s, i) == SubSeq(s, 1, i - 1) \o SubSeq(s, i + 1, Len(s))

\* statement i is answered with a: the callback of its caller runs
Settle(i, c, a) ==
    \E out \in { Deliver(c, a) } :
       LET follow == IF out.called THEN Callback(c.cb, out) ELSE << >>
       IN  /\ db' = a.db
           /\ queue' = Remove(queue, i) \o SubmitAll(follow, c.proc, FALSE)
           /\ last' = [ site |-> c.site, proc |-> c.proc, engine |-> binding,
                        text |-> c.text, native |-> a.err, nativeRows |-> a.rows,
                        follow |-> follow, out |-> out ]
           /\ log' = log \cup Logged(c, out)
           /\ issued' = issued \cup { << c.proc, follow[k] >> : k \in DOMAIN follow }

\* the engine answers statement i
Complete(i) ==
    /\ i \in DOMAIN queue
    /\ Executable(i)
    /\ \E c \in { Pending(queue[i]) } : \E a \in { Execute(c) } : Settle(i, c, a)
    /\ UNCHANGED << isPostgres, binding, source, proc, pc, appCalls, before, faults, sqlIn,
                    sqlOut >>

Next ==
    \/ StartProcess
    \/ InitDatabase
    \/ \E site \in AppSites : AppRequest(site)
    \/ \E i \in 1..Len(queue) : Complete(i)

Spec == Init /\ [][Next]_vars

\* ------------------------------- two processes on one networked database
InitNetworked == Init /\ isPostgres

\* a second process is started against the database of POSTGRES_URL while
\* seed statements of the one started before are still unanswered; its
\* start is followed from the moment the schema statements of the first are
\* answered
StartBeside ==
    /\ binding = "postgres"
    /\ proc < MaxRuns
    /\ pc = "running"
    /\ queue # << >>
    /\ \A k \in DOMAIN queue : Calls[queue[k].site].origin # "schema"
    /\ proc' = proc + 1
    /\ pc' = "loaded"
    /\ binding' = Bind(isPostgres)
    /\ before' = db.tables
    /\ last' = NoLast
    /\ UNCHANGED << isPostgres, source, db, queue, appCalls, log, issued, faults, sqlIn, sqlOut >>

\* The schema statements of a process started on a database whose schema
\* statements were answered before change no table and read no row: they
\* commute with every other statement, and are followed in the order issued.
SchemaInOrder(i) ==
    (queue[i].proc > 1 /\ Calls[queue[i].site].origin = "schema") =>
        \A j \in 1..(i - 1) :
            ~ (queue[j].proc = queue[i].proc /\ Calls[queue[j].site].origin = "schema")

NextConcurrent ==
    \/ StartProcess
    \/ StartBeside
    \/ InitDatabase
    \/ \E i \in 1..Len(queue) : SchemaInOrder(i) /\ Complete(i)

SpecConcurrent == InitNetworked /\ [][NextConcurrent]_vars

\* ------------------------------------------- statements that are lost
\* the error of a statement that never reached the engine or whose answer
\* never came back: connection_failure, or SQLITE_BUSY / SQLITE_IOERR
Lost == IF binding = "postgres" THEN "08006" ELSE "SQLITE_BUSY"

\* statement i fails without having been executed; the database is as it was
Fail(i) ==
    /\ i \in DOMAIN queue
    /\ Executable(i)
    /\ faults < MaxFaults
    /\ faults' = faults + 1
    /\ \E c \in { Pending(queue[i]) } : Settle(i, c, Failed(db, Lost))
    /\ UNCHANGED << isPostgres, binding, source, proc, pc, appCalls, before, sqlIn, sqlOut >>

\* the bootstrap runs of Spec, with statements that may be lost
NextFaulty ==
    \/ StartProcess
    \/ InitDatabase
    \/ \E i \in 1..Len(queue) : Complete(i)
    \/ \E i \in 1..Len(queue) : Fail(i)

SpecFaulty == Init /\ [][NextFaulty]_vars

\* ------------------------------------------- translateQuery on its own
\* the tokens of the statements given to translateQuery
Alphabet == { "?", "SELECT", "x" }

Statements == UNION { [ 1..n -> Alphabet ] : n \in 0..MaxLen }

InitTranslate ==
    /\ isPostgres = TRUE
    /\ binding = "none"
    /\ source = "part_000"
    /\ db = EmptyDb
    /\ queue = << >>
    /\ proc = 0
    /\ pc = "none"
    /\ appCalls = 0
    /\ last = NoLast
    /\ log = {}
    /\ issued = {}
    /\ before = << >>
    /\ faults = 0
    /\ sqlIn = << >>
    /\ sqlOut = << >>

\* one call of translateQuery(sql)
Translate(sql) ==
    /\ sqlIn' = sql
    /\ sqlOut' = translateQuery(sql)
    /\ UNCHANGED << isPostgres, binding, source, db, queue, proc, pc, appCalls, last, log,
                    issued, before, faults >>

NextTranslate == \E sql \in Statements : Translate(sql)

SpecTranslate == InitTranslate /\ [][NextTranslate]_vars

\* ----------------------------------------- db.run's rewriting on its own
\* Statements given to run: blanks, a leading keyword in either case, a
\* table, one column, one value (a marker, or a literal), possibly a
\* RETURNING clause in either case, blanks.
Blanks(n) == [ i \in 1..n |-> " " ]

RunKeywords == { "INSERT", "insert", "SELECT", "UPDATE" }

RunColumns == { "note", "returning_customer" }

RunValues == { "?", "'x'", "'returning soon'" }

RunClauses == { << >>, << "RETURNING", "id" >>, << "returning", "id" >> }

RunStatements ==
    { Blanks(lead) \o << kw, "t", col, v >> \o clause \o Blanks(trail) :
        lead \in 0..MaxBlanks, kw \in RunKeywords, col \in RunColumns, v \in RunValues,
        clause \in RunClauses, trail \in 0..MaxBlanks }

\* one call of db.run(sql) on the networked adapter, up to pool.query
Run(sql) ==
    /\ sqlIn' = sql
    /\ sqlOut' = run(sql).pgSql
    /\ UNCHANGED << isPostgres, binding, source, db, queue, proc, pc, appCalls, last, log,
                    issued, before, faults >>

NextRun == \E sql \in RunStatements : Run(sql)

SpecRun == InitTranslate /\ [][NextRun]_vars

\* ------------------------------------------------------------- the claims
Rows(t) == IF t \in DOMAIN db.rows THEN db.rows[t] ELSE << >>

\* how many rows of table t hold val in column col
CountWhere(t, col, val) ==
    Cardinality({ k \in DOMAIN Rows(t) : col \in DOMAIN Rows(t)[k] /\ Rows(t)[k][col] = val })

\* process n has run initDatabase and every statement sent since is answered
BootDone(n) == proc = n /\ pc = "running" /\ queue = << >>

LastCall == Calls[last.site]

Answered == last.site # "none"

DuplicateObject == { "42P07", "42701" }

\* the answer fetchOne gives now for the membership price query of the seed
MembershipPriceNow ==
    LET c == Pending(Submit(IF source = "part_000" THEN "p206" ELSE "d97", proc, FALSE))
        a == Execute(c)
    IN  [ matched |-> Len(a.rows), out |-> Deliver(c, a) ]

\* the statement answered last is an INSERT given to run
LastIsInsert == Answered /\ LastCall.op = "run" /\ StartsWith(LastCall.sql, << "INSERT" >>)

\* the statement answered last is a schema statement given to run
LastIsSchema ==
    /\ Answered
    /\ LastCall.op = "run"
    /\ (StartsWith(LastCall.sql, << "CREATE", "TABLE" >>) \/ StartsWith(LastCall.sql, << "ALTER" >>))

\* the statement answered last failed natively, and not as a duplicate object
LastFailed == Answered /\ last.native # "none" /\ last.native \notin DuplicateObject

\* C1: when a second bootstrap run on a fresh database has finished, the
\* tables and columns are those the first run left, and the second run has
\* reported no error of a schema statement.
C1_SchemaInitIdempotent ==
    BootDone(2) =>
        /\ db.tables = before
        /\ ~ \E l \in log : l.proc = 2 /\ Calls[l.site].origin = "schema"

\* C2: after two consecutive bootstrap runs settings holds exactly one row
\* for each seeded key, users exactly one admin@julg.com row, and courses
\* exactly the two sample rows.
C2_SeedExactlyOnce ==
    BootDone(2) =>
        /\ CountWhere("settings", "key", "membership_price") = 1
        /\ CountWhere("settings", "key", "membership_price_offer") = 1
        /\ CountWhere("users", "email", "admin@julg.com") = 1
        /\ CountWhere("courses", "title", "Curso Fiscal 2024") = 1
        /\ CountWhere("courses", "title", "Contabilidad para No Contadores") = 1
        /\ Len(Rows("courses")) = 2

\* C3: once a bootstrap run has finished (the first or the second), fetchOne
\* of the membership price matches exactly one row and returns value '999'.
C3_MembershipPriceSeeded ==
    (BootDone(1) \/ BootDone(2)) =>
        /\ MembershipPriceNow.matched = 1
        /\ MembershipPriceNow.out.err = "none"
        /\ MembershipPriceNow.out.row = << [ value |-> "999" ] >>

\* C4: an INSERT given to run that succeeds reports lastID > 0 and changes
\* = 1, and no INSERT is refused for the identity column run asks back
\* (undefined_column), whatever the table.
C4_InsertIdentity ==
    LastIsInsert =>
        /\ last.native = "none" =>
              /\ last.out.lastID.type = "number"
              /\ last.out.lastID.n > 0
              /\ last.out.changes = 1
        /\ last.native # "42703"

\* C5: on the networked engine a schema statement given to run that the
\* engine refuses with 42P07 or 42701 ends as a success: null error,
\* lastID = 0, changes = 0, nothing logged.
C5_DuplicateObjectIsSuccess ==
    (isPostgres /\ LastIsSchema /\ last.native \in DuplicateObject) =>
        /\ last.out.err = "none"
        /\ last.out.called = (LastCall.cb # "none")
        /\ last.out.lastID = JsNumber(0)
        /\ last.out.changes = 0
        /\ ~ last.out.logged
        /\ ~ \E l \in log : l.proc = last.proc /\ l.site = last.site

C5_Witness ==
    /\ isPostgres /\ LastIsSchema /\ last.native \in DuplicateObject
    /\ LastCall.cb # "none" /\ last.out.called

\* C6 as stated: on the networked adapter every native error other than the
\* duplicate-object condition reaches the caller as the error of the call,
\* unmodified, callback or not.
C6_ErrorsPropagate ==
    (isPostgres /\ LastFailed) => (last.out.called /\ last.out.err = last.native)

\* C6 amended: the error is the error argument of the callback when the call
\* has one; run without a callback only logs it.
C6_ErrorsPropagateOrLogged ==
    (isPostgres /\ LastFailed) =>
        IF LastCall.cb # "none"
        THEN last.out.called /\ last.out.err = last.native /\ ~ last.out.logged
        ELSE /\ LastCall.op = "run"
             /\ ~ last.out.called
             /\ last.out.logged
             /\ [ proc |-> last.proc, tag |-> "DB Error:", site |-> last.site ] \in log

C6_Witness ==
    /\ isPostgres /\ LastFailed /\ LastCall.op = "run" /\ LastCall.cb # "none"
    /\ last.out.err = last.native

\* C7: get on a query the engine answers without error calls back with a
\* null error and the first row, or the absence marker when no row matched.
C7_GetAbsence ==
    (Answered /\ LastCall.op = "get" /\ last.native = "none") =>
        /\ last.out.called
        /\ last.out.err = "none"
        /\ last.nativeRows = << >> => last.out.row = NoRow
        /\ last.nativeRows # << >> => last.out.row = << last.nativeRows[1] >>

C7_Witness ==
    /\ isPostgres /\ Answered /\ LastCall.op = "get" /\ last.native = "none"
    /\ last.nativeRows = << >> /\ last.out.row = NoRow /\ last.out.err = "none"

\* the numbered placeholders of a translated statement, left to right
Placeholders(sql) == SelectSeq(sql, LAMBDA tok : tok \in Range(Numbered))

\* C8: translateQuery leaves no '?', the i-th '?' from the left has become
\* $i counting from 1 in every call, there are as many placeholders as there
\* were markers, and every other token is where and what it was.
C8_TranslateNumbers ==
    /\ Len(sqlOut) = Len(sqlIn)
    /\ "?" \notin Range(sqlOut)
    /\ Len(Placeholders(sqlOut)) = Len(SelectSeq(sqlIn, LAMBDA tok : tok = "?"))
    /\ \A i \in DOMAIN Placeholders(sqlOut) : Placeholders(sqlOut)[i] = Numbered[i]
    /\ \A k \in DOMAIN sqlIn :
          IF sqlIn[k] = "?" THEN sqlOut[k] \in Range(Numbered) ELSE sqlOut[k] = sqlIn[k]

C8_Witness == Len(sqlIn) = MaxLen /\ Placeholders(sqlOut) = << "$1", "$2" >>

\* C9: when the engine answers a seed existence check or a seed insert, no
\* schema statement of the same initDatabase run is still unanswered.
C9_SeedAfterSchema ==
    (Answered /\ LastCall.origin \in { "seedCheck", "seedInsert" }) =>
        ~ \E k \in DOMAIN queue :
              queue[k].proc = last.proc /\ Calls[queue[k].site].origin = "schema"

\* C10: no process after the first hands a seed INSERT to the engine.
C10_SeedInsertsOnlyOnce == \A x \in issued : x[1] = 1

\* C11: the handle is bound to the networked engine exactly when the
\* environment holds a connection descriptor and to the embedded engine
\* otherwise; no step changes the descriptor's presence or rebinds a bound
\* handle to the other engine; every statement is answered by the bound
\* engine, and the embedded engine is sent the text as the caller wrote it.
C11_BindingChosenOnce ==
    [][ /\ isPostgres' = isPostgres
        /\ binding # "none" => binding' = binding
        /\ binding' # "none" => binding' = (IF isPostgres' THEN "postgres" ELSE "sqlite")
        /\ last'.site # "none" =>
              /\ last'.engine = binding'
              /\ binding' = "sqlite" => last'.text = Calls[last'.site].sql ]_vars

C11_Witness ==
    /\ ~ isPostgres /\ source = "part_000" /\ proc = 2 /\ binding = "sqlite"
    /\ Answered /\ last.engine = "sqlite" /\ "?" \in Range(last.text)

\* the leading keyword of a statement, blanks dropped, in upper case
LeadingKeyword(sql) == IF Trim(sql) = << >> THEN "" ELSE ToUpperCase(Head(Trim(sql)))

\* the RETURNING keywords of a statement, in either case
ReturningClauses(sql) == SelectSeq(sql, LAMBDA tok : ToUpperCase(tok) = "RETURNING")

\* C12: run appends ' RETURNING id' exactly when the leading keyword is
\* INSERT and the statement has no RETURNING clause of its own; otherwise
\* the statement is sent as translateQuery leaves it; the statement sent
\* holds at most one RETURNING clause.
C12_ReturningAppended ==
    sqlIn # << >> =>
        /\ IF LeadingKeyword(sqlIn) = "INSERT" /\ ReturningClauses(sqlIn) = << >>
           THEN sqlOut = translateQuery(sqlIn) \o << "RETURNING", "id" >>
           ELSE sqlOut = translateQuery(sqlIn)
        /\ Len(ReturningClauses(sqlOut)) <= 1

\* C12 for the statements that spell the word returning nowhere but in a
\* RETURNING clause
C12_ReturningAppendedPlain ==
    (sqlIn # << >> /\ \A i \in DOMAIN sqlIn :
                         Contains(ToLowerCase(sqlIn[i]), "returning") =>
                             ToLowerCase(sqlIn[i]) = "returning") =>
        C12_ReturningAppended

\* the answer of a seed existence check says that the row is not there
ReportsNoRow ==
    /\ last.native = "none"
    /\ IF LastCall.cb = "CoursesSeed"
       THEN last.nativeRows # << >> /\ last.nativeRows[1].count.n = 0
       ELSE last.nativeRows = << >>

\* C13: the callback of a seed existence check issues seed INSERTs only
\* when the check was answered without error and found no matching row; a
\* check that failed is followed by no seed INSERT.
C13_SeedGuarded ==
    (Answered /\ LastCall.origin = "seedCheck" /\ last.follow # << >>) => ReportsNoRow

\* C14: once the statements of a bootstrap run are all answered, after the
\* first run and after the next, settings has a membership_price row exactly
\* when it has a membership_price_offer row.
C14_PriceAndOfferTogether ==
    (BootDone(1) \/ BootDone(2)) =>
        (CountWhere("settings", "key", "membership_price") > 0
            <=> CountWhere("settings", "key", "membership_price_offer") > 0)

\* the caller of the statement answered last got no result
NoResult ==
    /\ last.out.lastID = JsUndefined
    /\ last.out.row = NoRow
    /\ last.out.rows = << >>

\* the caller of the statement answered last got the result of its operation
HasResult ==
    CASE LastCall.op = "run" -> last.out.lastID.type = "number" /\ last.out.changes >= 0
      [] LastCall.op = "get" -> last.out.row = FirstRow(last.nativeRows)
      [] OTHER               -> last.out.rows = last.nativeRows

\* C15: on the networked adapter the callback given to run, get or all is
\* invoked exactly once when the query is answered: with the error and no
\* result, or with a null error and the result.
C15_CallbackExactlyOnce ==
    (last.engine = "postgres" /\ LastCall.cb # "none") =>
        /\ last.out.called
        /\ last.out.times = 1
        /\ IF last.out.err # "none" THEN NoResult ELSE HasResult

C15_Witness ==
    /\ last.engine = "postgres" /\ LastCall.op = "get" /\ LastCall.cb # "none"
    /\ last.out.err # "none" /\ last.out.times = 1 /\ NoResult

\* every statement of every started process has been answered
AllAnswered == proc > 0 /\ pc = "running" /\ queue = << >>

\* C16: however the statements of two bootstrap runs on one networked
\* database interleave, the database never holds more than one row per
\* seeded settings key, more than one admin@julg.com account or more than
\* the two sample courses.
C16_NoDuplicateSeeds ==
    /\ CountWhere("settings", "key", "membership_price") <= 1
    /\ CountWhere("settings", "key", "membership_price_offer") <= 1
    /\ CountWhere("users", "email", "admin@julg.com") <= 1
    /\ CountWhere("courses", "title", "Curso Fiscal 2024") <= 1
    /\ CountWhere("courses", "title", "Contabilidad para No Contadores") <= 1
    /\ Len(Rows("courses")) <= 2

\* both processes have issued the admin insert and all is answered
C16_Witness ==
    /\ AllAnswered /\ proc = 2
    /\ << 1, "p217" >> \in issued /\ << 2, "p217" >> \in issued
    /\ \E k \in DOMAIN Rows("users") : Rows("users")[k].email = "admin@julg.com"
    /\ last.native = "23505"

=============================================================================
